---------------------------- MODULE Spec2Model ----------------------------
(***************************************************************************)
(* Model of salvo's signed session cookie middleware                       *)
(* (src/extra/src/session.rs).                                             *)
(*                                                                         *)
(* Strings are sequences of bytes (the UTF-8 encoding a Rust &str holds).  *)
(* HMAC-SHA256 is modelled as an ideal MAC: a keyed function into 32-byte  *)
(* digests that is injective in (key, message) over the bounded domain.    *)
(* base64 is computed symbol by symbol, as the base64 crate does.          *)
(***************************************************************************)
EXTENDS Integers, Sequences, FiniteSets, TLC

VARIABLES
    key,            \* SessionHandler.hmac: the primary signing key
    fallback_keys,  \* SessionHandler.fallback_hmacs: ordered fallback keys
    session_ttl,    \* SessionHandler.session_ttl: 0 is None
    save_unchanged, \* SessionHandler.save_unchanged
    cx_origin,      \* codec harness: how cx_value was produced
    cx_signer,      \* codec harness: the key cx_value was signed under
    cx_raw,         \* codec harness: the raw value that was signed
    cx_value,       \* codec harness: the cookie value handed to verify
    cx_result,      \* codec harness: what verify_signature returned
    store,          \* the SessionStore: session id -> persisted session
    now,            \* the clock (SystemTime::now / Utc::now)
    next_token,     \* how many fresh sessions Session::new has generated
    jar,            \* the cookies responses have handed out, with their history
    pc,             \* per request: "idle", "chain", "returned", "done" or "panicked"
    req_cookie,     \* per request: Option of the session cookie's value
    depot,          \* per request: Option of the session under SESSION_KEY
    is_ceased,      \* per request: FlowCtrl::is_ceased
    res_cookies,    \* per request: what the handler did to the response's cookies
    calls,          \* per request: history of the store calls made
    verdict,        \* per request: what verify_signature returned in begin
    seen,           \* per request: the session begin exposed to the handlers
    presented,      \* per request: history, the jar's entry of the cookie at begin, and when
    taken,          \* per request: history, the session end took from the depot
    https_port,     \* ForceHttps.https_port: Option of the port override
    rh_name,        \* redirect harness: the host of the Host header, without port
    rh_port,        \* redirect harness: Option of the port of the Host header
    rh_result       \* redirect harness: Option of what redirect_host returned

cfgVars == <<key, fallback_keys, session_ttl, save_unchanged>>
codecVars == <<cx_origin, cx_signer, cx_raw, cx_value, cx_result>>
sharedVars == <<store, now, next_token, jar>>
reqVars == <<pc, req_cookie, depot, is_ceased, res_cookies, calls, verdict, seen,
             presented, taken>>
lifeVars == <<sharedVars, reqVars>>
redirectVars == <<https_port, rh_name, rh_port, rh_result>>
vars == <<cfgVars, codecVars, lifeVars, redirectVars>>

---------------------------------------------------------------------------
(* Bounds of the model *)

\* number of distinct signing secrets
NumKeys == 2
\* longest raw value signed in the codec harness
MaxRawLen == 2
\* requests in flight at the same time
MaxInFlight == 2
\* fresh sessions generated in one run
MaxSessions == 2
\* the clock stops here
MaxTime == 2

(* Program constants *)

BASE64_DIGEST_LEN == 44
\* output size of SHA-256 in bytes
DIGEST_LEN == 32

KeyIds == 1..NumKeys
\* raw values are ASCII strings over {'A', 'B'}
RawBytes == {65, 66}
RECURSIVE StringsUpTo(_)
StringsUpTo(n) ==
    IF n = 0 THEN {<<>>}
    ELSE LET shorter == StringsUpTo(n - 1)
         IN shorter \cup {Append(s, b) : s \in {t \in shorter : Len(t) = n - 1}, b \in RawBytes}
RawValues == StringsUpTo(MaxRawLen)

\* fallback key lists: none, one key, or two keys in either order
FallbackLists ==
    {<<>>} \cup {<<a>> : a \in KeyIds}
           \cup {<<a, b>> : a \in KeyIds, b \in KeyIds}

Range(s) == {s[i] : i \in DOMAIN s}
Rep(b, n) == [i \in 1..n |-> b]

---------------------------------------------------------------------------
(* base64, standard alphabet with padding *)

PAD == 61

B64Char(n) ==
    IF n < 26 THEN 65 + n
    ELSE IF n < 52 THEN 97 + (n - 26)
    ELSE IF n < 62 THEN 48 + (n - 52)
    ELSE IF n = 62 THEN 43
    ELSE 47

B64Val(c) ==
    IF c >= 65 /\ c <= 90 THEN c - 65
    ELSE IF c >= 97 /\ c <= 122 THEN c - 97 + 26
    ELSE IF c >= 48 /\ c <= 57 THEN c - 48 + 52
    ELSE IF c = 43 THEN 62
    ELSE IF c = 47 THEN 63
    ELSE -1

RECURSIVE base64_encode(_)
base64_encode(b) ==
    IF Len(b) = 0 THEN <<>>
    ELSE IF Len(b) = 1 THEN
        LET n == b[1] * 16
        IN <<B64Char(n \div 64), B64Char(n % 64), PAD, PAD>>
    ELSE IF Len(b) = 2 THEN
        LET n == (b[1] * 256 + b[2]) * 4
        IN <<B64Char(n \div 4096), B64Char((n \div 64) % 64), B64Char(n % 64), PAD>>
    ELSE
        LET n == b[1] * 65536 + b[2] * 256 + b[3]
        IN <<B64Char(n \div 262144), B64Char((n \div 4096) % 64),
             B64Char((n \div 64) % 64), B64Char(n % 64)>>
           \o base64_encode(SubSeq(b, 4, Len(b)))

\* number of trailing '=' bytes of s
RECURSIVE TrailingPads(_)
TrailingPads(s) ==
    IF Len(s) > 0 /\ s[Len(s)] = PAD
    THEN 1 + TrailingPads(SubSeq(s, 1, Len(s) - 1))
    ELSE 0

\* bytes of a sequence of 6-bit symbol values; a final group of two or three
\* symbols carries 4 or 2 unused bits
RECURSIVE DecodeSymbols(_)
DecodeSymbols(v) ==
    IF Len(v) = 0 THEN <<>>
    ELSE IF Len(v) = 2 THEN <<(v[1] * 64 + v[2]) \div 16>>
    ELSE IF Len(v) = 3 THEN
        LET n == v[1] * 4096 + v[2] * 64 + v[3]
        IN <<n \div 1024, (n \div 4) % 256>>
    ELSE
        LET n == v[1] * 262144 + v[2] * 4096 + v[3] * 64 + v[4]
        IN <<n \div 65536, (n \div 256) % 256, n % 256>>
           \o DecodeSymbols(SubSeq(v, 5, Len(v)))

\* the unused low bits of the last symbol
TrailingBits(v) ==
    IF Len(v) % 4 = 2 THEN v[Len(v)] % 16
    ELSE IF Len(v) % 4 = 3 THEN v[Len(v)] % 4
    ELSE 0

\* a decoder that ignores the unused bits of the last symbol
base64_decode_lenient(s) ==
    LET pads == TrailingPads(s)
        body == SubSeq(s, 1, Len(s) - pads)
        vals == [i \in 1..Len(body) |-> B64Val(body[i])]
    IN IF \/ pads > 2
          \/ \E i \in 1..Len(body) : vals[i] < 0
          \/ Len(body) % 4 = 1
          \/ (pads > 0 /\ Len(body) % 4 < 2)
       THEN [ok |-> FALSE, bytes |-> <<>>]
       ELSE [ok |-> TRUE, bytes |-> DecodeSymbols(vals)]

\* base64::decode: an error for a byte outside the alphabet, padding that is
\* not the end of the last quad, an impossible length, or a last symbol with
\* non-zero unused bits
base64_decode(s) ==
    LET pads == TrailingPads(s)
        body == SubSeq(s, 1, Len(s) - pads)
        vals == [i \in 1..Len(body) |-> B64Val(body[i])]
    IN IF \/ pads > 2
          \/ \E i \in 1..Len(body) : vals[i] < 0
          \/ Len(body) % 4 = 1
          \/ (pads > 0 /\ Len(body) % 4 < 2)
          \/ TrailingBits(vals) # 0
       THEN [ok |-> FALSE, bytes |-> <<>>]
       ELSE [ok |-> TRUE, bytes |-> DecodeSymbols(vals)]

---------------------------------------------------------------------------
(* HMAC-SHA256 as an ideal MAC: the message length and bytes are laid out  *)
(* in the digest and offset by a key-dependent pad, so that distinct       *)
(* (key, message) pairs of the bounded domain have distinct digests.       *)

Hmac(k, msg) ==
    [i \in 1..DIGEST_LEN |->
        ((k * 17 + i * 29)
          + (IF i = 1 THEN Len(msg)
             ELSE IF i - 1 <= Len(msg) THEN msg[i - 1]
             ELSE 0)) % 256]

\* Mac::verify: equality of the whole digest, the length included
HmacVerify(k, msg, digest) == digest = Hmac(k, msg)

---------------------------------------------------------------------------
(* SessionHandler::sign_cookie and SessionHandler::verify_signature *)

\* str::is_char_boundary: the start, the end, or a byte that is not a UTF-8
\* continuation byte (0x80..0xBF)
is_char_boundary(s, idx) ==
    IF idx = 0 \/ idx = Len(s) THEN TRUE
    ELSE IF idx > Len(s) THEN FALSE
    ELSE ~(s[idx + 1] >= 128 /\ s[idx + 1] <= 191)

Ok(v, steps) == [tag |-> "Ok", value |-> v, msg |-> "", steps |-> steps]
Err(m, steps) == [tag |-> "Err", value |-> <<>>, msg |-> m, steps |-> steps]
Panic(steps) == [tag |-> "Panic", value |-> <<>>, msg |-> "", steps |-> steps]

\* a signer that leaves the padding off the digest
sign_cookie_unpadded(hmac, value) ==
    SubSeq(base64_encode(Hmac(hmac, value)), 1, BASE64_DIGEST_LEN - 1) \o value

\* the new value is [MAC | original-value]
sign_cookie(hmac, value) == base64_encode(Hmac(hmac, value)) \o value

\* a verifier that tries the first fallback key only
verify_signature_first_fallback(hmac, fallback_hmacs, cookie_value) ==
    IF Len(cookie_value) < BASE64_DIGEST_LEN
    THEN Err("length of value is <= BASE64_DIGEST_LEN", {})
    ELSE IF ~is_char_boundary(cookie_value, BASE64_DIGEST_LEN)
    THEN Panic({"split"})
    ELSE
        LET digest_str == SubSeq(cookie_value, 1, BASE64_DIGEST_LEN)
            value == SubSeq(cookie_value, BASE64_DIGEST_LEN + 1, Len(cookie_value))
            dec == base64_decode(digest_str)
        IN IF ~dec.ok THEN Err("bad base64 digest", {"split", "decode"})
           ELSE IF HmacVerify(hmac, value, dec.bytes)
           THEN Ok(value, {"split", "decode", "mac"})
           ELSE IF Len(fallback_hmacs) > 0
                   /\ HmacVerify(fallback_hmacs[1], value, dec.bytes)
           THEN Ok(value, {"split", "decode", "mac"})
           ELSE Err("value did not verify", {"split", "decode", "mac"})

\* a verifier that splits without checking the length first
verify_signature_unchecked(hmac, fallback_hmacs, cookie_value) ==
    IF ~is_char_boundary(cookie_value, BASE64_DIGEST_LEN)
    THEN Panic({"split"})
    ELSE
        LET digest_str == SubSeq(cookie_value, 1, BASE64_DIGEST_LEN)
            value == SubSeq(cookie_value, BASE64_DIGEST_LEN + 1, Len(cookie_value))
            dec == base64_decode(digest_str)
        IN IF ~dec.ok THEN Err("bad base64 digest", {"split", "decode"})
           ELSE IF HmacVerify(hmac, value, dec.bytes)
                   \/ \E i \in DOMAIN fallback_hmacs :
                          HmacVerify(fallback_hmacs[i], value, dec.bytes)
           THEN Ok(value, {"split", "decode", "mac"})
           ELSE Err("value did not verify", {"split", "decode", "mac"})

\* `steps` records which of split_at, base64::decode and Mac::verify ran
verify_signature(hmac, fallback_hmacs, cookie_value) ==
    IF Len(cookie_value) < BASE64_DIGEST_LEN
    THEN Err("length of value is <= BASE64_DIGEST_LEN", {})
    ELSE IF ~is_char_boundary(cookie_value, BASE64_DIGEST_LEN)
    THEN Panic({"split"})
    ELSE
        LET digest_str == SubSeq(cookie_value, 1, BASE64_DIGEST_LEN)
            value == SubSeq(cookie_value, BASE64_DIGEST_LEN + 1, Len(cookie_value))
            dec == base64_decode(digest_str)
        IN IF ~dec.ok THEN Err("bad base64 digest", {"split", "decode"})
           ELSE IF HmacVerify(hmac, value, dec.bytes)
           THEN Ok(value, {"split", "decode", "mac"})
           ELSE IF \E i \in DOMAIN fallback_hmacs :
                      HmacVerify(fallback_hmacs[i], value, dec.bytes)
           THEN Ok(value, {"split", "decode", "mac"})
           ELSE Err("value did not verify", {"split", "decode", "mac"})

---------------------------------------------------------------------------
(* Option<T>: None is the empty sequence, Some(x) the one-element one *)

None == <<>>
Some(x) == <<x>>
IsSome(o) == o # <<>>
Unwrap(o) == o[1]

---------------------------------------------------------------------------
(* force_https.rs: redirect_host *)

Colon == 58

\* format!("{}", n) of an unsigned integer
RECURSIVE ToDecimal(_)
ToDecimal(n) ==
    IF n < 10 THEN <<48 + n>>
    ELSE Append(ToDecimal(n \div 10), 48 + (n % 10))

\* str::split_once(':'): None, or the parts before and after the first ':'
split_once(s, delimiter) ==
    LET at == {i \in DOMAIN s : s[i] = delimiter}
    IN IF at = {} THEN None
       ELSE LET first == CHOOSE i \in at : \A j \in at : i <= j
            IN Some(<<SubSeq(s, 1, first - 1), SubSeq(s, first + 1, Len(s))>>)

\* a redirect_host that appends the port to the host as it came
redirect_host_appending(host, port) ==
    IF IsSome(port) THEN host \o <<Colon>> \o ToDecimal(Unwrap(port)) ELSE host

redirect_host(host, port) ==
    LET parts == split_once(host, Colon)
    IN IF IsSome(parts) /\ IsSome(port)
       THEN Unwrap(parts)[1] \o <<Colon>> \o ToDecimal(Unwrap(port))
       ELSE IF IsSome(port)
       THEN host \o <<Colon>> \o ToDecimal(Unwrap(port))
       ELSE host

\* the redirect harness at rest
InitRedirectIdle ==
    /\ https_port = None
    /\ rh_name = <<>>
    /\ rh_port = None
    /\ rh_result = None

---------------------------------------------------------------------------
(* The state of the request slots *)

Pending == [tag |-> "Pending", value |-> <<>>, msg |-> "", steps |-> {}]

Reqs == 1..MaxInFlight

\* the state of a request slot no request occupies
InitLife ==
    /\ store = {}
    /\ now = 0
    /\ next_token = 0
    /\ jar = {}
    /\ pc = [r \in Reqs |-> "idle"]
    /\ req_cookie = [r \in Reqs |-> None]
    /\ depot = [r \in Reqs |-> None]
    /\ is_ceased = [r \in Reqs |-> FALSE]
    /\ res_cookies = [r \in Reqs |-> <<>>]
    /\ calls = [r \in Reqs |-> <<>>]
    /\ verdict = [r \in Reqs |-> Pending]
    /\ seen = [r \in Reqs |-> None]
    /\ presented = [r \in Reqs |-> None]
    /\ taken = [r \in Reqs |-> None]

---------------------------------------------------------------------------
(* async_session::Session as the handler uses it *)

\* the cookie value Session::new generates for the n-th fresh session
Token(n) == <<83, 48 + n>>

\* Session::id_from_cookie_value: a digest of the cookie value, never the
\* value itself
IdFromCookieValue(v) == [i \in 1..Len(v) |-> (v[Len(v) + 1 - i] + 128) % 256]

\* Session::new, which Session::default is
SessionNew(n) ==
    [id |-> IdFromCookieValue(Token(n)), cookie_value |-> Some(Token(n)),
     data |-> {}, expiry |-> None, data_changed |-> FALSE, destroy |-> FALSE]

\* an expire_in that counts the new expiry as a change of the data
expire_in_dirty(session, ttl, t) ==
    [session EXCEPT !.expiry = Some(t + ttl), !.data_changed = TRUE]

\* Session::expire_in at time t: sets the expiry, leaves data_changed alone
expire_in(session, ttl, t) == [session EXCEPT !.expiry = Some(t + ttl)]

\* Session::is_expired at time t
is_expired(expiry, t) == IsSome(expiry) /\ Unwrap(expiry) < t

\* Session::validate
validate(session) == IF is_expired(session.expiry, now) THEN None ELSE Some(session)

Get(data, k) == {p[2] : p \in {q \in data : q[1] = k}}

\* Session::insert: marks the data changed only when the value differs
SessionInsert(session, k, v) ==
    IF Get(session.data, k) = {v} THEN session
    ELSE [session EXCEPT !.data = {p \in session.data : p[1] # k} \cup {<<k, v>>},
                         !.data_changed = TRUE]

\* Session::remove: marks the data changed only when the key was there
SessionRemove(session, k) ==
    IF Get(session.data, k) = {} THEN session
    ELSE [session EXCEPT !.data = {p \in session.data : p[1] # k},
                         !.data_changed = TRUE]

\* Session::destroy
SessionDestroy(session) == [session EXCEPT !.destroy = TRUE]

---------------------------------------------------------------------------
(* The SessionStore the handler is built with *)

Stored(id) == {e \in store : e.id = id}

\* load_session of a store that loads faithfully: the persisted session of
\* the id the cookie value stands for, unless it has expired
StoreLoad(cookie_value) ==
    LET found == Stored(IdFromCookieValue(cookie_value))
    IN IF found = {} THEN None
       ELSE LET e == CHOOSE x \in found : TRUE
            IN validate([id |-> e.id, cookie_value |-> None, data |-> e.data,
                         expiry |-> e.expiry, data_changed |-> FALSE,
                         destroy |-> FALSE])

\* load_session of a store that leaves the expiry check to its caller
StoreLoadRaw(cookie_value) ==
    LET found == Stored(IdFromCookieValue(cookie_value))
    IN IF found = {} THEN None
       ELSE LET e == CHOOSE x \in found : TRUE
            IN Some([id |-> e.id, cookie_value |-> None, data |-> e.data,
                     expiry |-> e.expiry, data_changed |-> FALSE,
                     destroy |-> FALSE])

\* a store_session that merges the data into what the store holds
StorePut_merging(session) ==
    {e \in store : e.id # session.id}
        \cup {[id |-> session.id,
                data |-> session.data
                           \cup {p \in UNION {e.data : e \in Stored(session.id)} :
                                    Get(session.data, p[1]) = {}},
                expiry |-> session.expiry]}

\* store_session of a store that persists
StorePut(session) ==
    {e \in store : e.id # session.id}
        \cup {[id |-> session.id, data |-> session.data, expiry |-> session.expiry]}

\* destroy_session of a store that persists
StoreRemove(session) == {e \in store : e.id # session.id}

\* the value a store hands back for the next cookie: the session's own cookie
\* value, or for a loaded session (which carries none) the value its id was
\* derived from
StoreToken(session) ==
    IF IsSome(session.cookie_value) THEN Unwrap(session.cookie_value)
    ELSE [i \in 1..Len(session.id) |-> (session.id[Len(session.id) + 1 - i] + 128) % 256]

\* what a store call can answer
\* "OkRaw": Ok from a store that does not check the expiry itself
LoadOutcomes == {"Ok", "OkRaw", "Err"}
StoreOutcomes == {"OkSome", "OkNone", "Err"}
DestroyOutcomes == {"Ok", "Err"}

NoArg == [id |-> <<>>, cookie_value |-> None, data |-> {}, expiry |-> None,
          data_changed |-> FALSE, destroy |-> FALSE]
Call(op, raw, session, result) ==
    [op |-> op, raw |-> raw, session |-> session, result |-> result]

---------------------------------------------------------------------------
(* The client's cookie jar, with the history of each cookie: the session   *)
(* data persisted when it was issued, and what store calls did to that     *)
(* session since ("live": nothing)                                         *)

JarEntry(value, session) ==
    [value |-> value, id |-> session.id, data |-> session.data,
     expiry |-> session.expiry, state |-> "live"]

\* a store call on session `id` ended with `state`: what the cookie was
\* issued for is history
JarMark(id, state) ==
    {IF j.id = id
     THEN [j EXCEPT !.state = state, !.data = {}, !.expiry = None]
     ELSE j : j \in jar}

JarIssue(j, value, session) ==
    {e \in j : e.value # value} \cup {JarEntry(value, session)}

---------------------------------------------------------------------------
(* SessionHandler::build_cookie *)

COOKIE_NAME == "salvo.sid"
COOKIE_PATH == "/"

\* a builder that forgets to sign
build_cookie_unsigned(secure, cookie_value) ==
    [op |-> "add", name |-> COOKIE_NAME, value |-> cookie_value,
     http_only |-> TRUE, same_site |-> "Lax", secure |-> secure,
     path |-> COOKIE_PATH,
     expires |-> IF IsSome(session_ttl) THEN Some(now + Unwrap(session_ttl)) ELSE None]

build_cookie(secure, cookie_value) ==
    [op |-> "add", name |-> COOKIE_NAME, value |-> sign_cookie(key, cookie_value),
     http_only |-> TRUE, same_site |-> "Lax", secure |-> secure,
     path |-> COOKIE_PATH,
     expires |-> IF IsSome(session_ttl) THEN Some(now + Unwrap(session_ttl)) ELSE None]

\* Response::remove_cookie
RemoveCookie(name) ==
    [op |-> "remove", name |-> name, value |-> <<>>, http_only |-> FALSE,
     same_site |-> "", secure |-> FALSE, path |-> "", expires |-> None]

---------------------------------------------------------------------------
(* SessionHandler::handle, up to call_next *)

\* the key the handlers of Init keep as a fallback, and one they dropped
OldKey == NumKeys
RemovedKey == NumKeys + 1

\* cookie values a client presents although no response issued them
ForgedCookies ==
    { Rep(65, 3),
      Rep(33, BASE64_DIGEST_LEN) \o Token(1),
      sign_cookie(OldKey, Token(1)),
      sign_cookie(RemovedKey, Token(1)),
      Rep(65, BASE64_DIGEST_LEN - 1) \o <<195, 169>> }

\* a client cannot name a session before Session::new has generated it: the
\* ids are random
NamesUnknownSession(v) ==
    /\ Len(v) > BASE64_DIGEST_LEN
    /\ \A n \in 1..next_token : SubSeq(v, BASE64_DIGEST_LEN + 1, Len(v)) # Token(n)

ClientCookies ==
    {None} \cup {Some(v) : v \in {j.value : j \in jar}
                              \cup {f \in ForgedCookies : ~NamesUnknownSession(f)}}

\* a begin that passes the raw portion on whatever verification said
verified_value_trusting(c, v) ==
    IF IsSome(c) /\ Len(Unwrap(c)) >= BASE64_DIGEST_LEN
    THEN Some(SubSeq(Unwrap(c), BASE64_DIGEST_LEN + 1, Len(Unwrap(c))))
    ELSE None

\* a begin that hands the store the cookie's value, digest included
verified_value_unsplit(c, v) == IF IsSome(c) /\ v.tag = "Ok" THEN c ELSE None

\* cookie.and_then(|cookie| self.verify_signature(cookie.value()).ok())
verified_value(c, v) == IF IsSome(c) /\ v.tag = "Ok" THEN Some(v.value) ELSE None

\* a load_or_create that drops what the store loaded
load_or_create_discard(cookie_value, outcome) == SessionNew(next_token + 1)

\* a load_or_create that trusts the store to have checked the expiry
load_or_create_unvalidated(cookie_value, outcome) ==
    LET session == IF IsSome(cookie_value) /\ outcome = "Ok"
                   THEN StoreLoad(Unwrap(cookie_value))
                   ELSE IF IsSome(cookie_value) /\ outcome = "OkRaw"
                   THEN StoreLoadRaw(Unwrap(cookie_value))
                   ELSE None
    IN IF IsSome(session) THEN Unwrap(session) ELSE SessionNew(next_token + 1)

\* a load_or_create that hands out the session another request in flight is
\* working on, when it is the one the cookie names
load_or_create_shared(cookie_value, outcome) ==
    LET session == IF IsSome(cookie_value) /\ outcome = "Ok"
                   THEN StoreLoad(Unwrap(cookie_value))
                   ELSE IF IsSome(cookie_value) /\ outcome = "OkRaw"
                   THEN StoreLoadRaw(Unwrap(cookie_value))
                   ELSE None
        valid == IF IsSome(session) THEN validate(Unwrap(session)) ELSE None
        inflight == IF IsSome(valid)
                    THEN {q \in Reqs : IsSome(depot[q])
                                         /\ Unwrap(depot[q]).id = Unwrap(valid).id}
                    ELSE {}
    IN IF inflight # {} THEN Unwrap(depot[CHOOSE q \in inflight : TRUE])
       ELSE IF IsSome(valid) THEN Unwrap(valid)
       ELSE SessionNew(next_token + 1)

\* SessionHandler::load_or_create, with the store's answer
load_or_create(cookie_value, outcome) ==
    LET session == IF IsSome(cookie_value) /\ outcome = "Ok"
                   THEN StoreLoad(Unwrap(cookie_value))
                   ELSE IF IsSome(cookie_value) /\ outcome = "OkRaw"
                   THEN StoreLoadRaw(Unwrap(cookie_value))
                   ELSE None
        valid == IF IsSome(session) THEN validate(Unwrap(session)) ELSE None
    IN IF IsSome(valid) THEN Unwrap(valid) ELSE SessionNew(next_token + 1)

Begin(r, c, outcome) ==
    /\ pc[r] = "idle"
    /\ \A q \in Reqs : q < r => pc[q] # "idle"
    /\ LET v == IF IsSome(c) THEN verify_signature(key, fallback_keys, Unwrap(c))
                ELSE Pending
           cookie_value == verified_value(c, v)
           loaded == load_or_create(cookie_value, outcome)
           fresh == loaded.id = IdFromCookieValue(Token(next_token + 1))
           session == IF IsSome(session_ttl)
                      THEN expire_in(loaded, Unwrap(session_ttl), now)
                      ELSE loaded
           entry == IF IsSome(c) THEN {j \in jar : j.value = Unwrap(c)} ELSE {}
       IN /\ req_cookie' = [req_cookie EXCEPT ![r] = c]
          /\ verdict' = [verdict EXCEPT ![r] = v]
          /\ presented' = [presented EXCEPT ![r] =
                 IF entry = {} THEN None
                 ELSE Some([entry |-> CHOOSE j \in entry : TRUE, at |-> now])]
          /\ IF v.tag = "Panic"
             THEN /\ pc' = [pc EXCEPT ![r] = "panicked"]
                  /\ outcome = "Ok"
                  /\ UNCHANGED <<depot, calls, seen, next_token>>
             ELSE /\ IsSome(cookie_value) \/ outcome = "Ok"
                  \* the two kinds of store differ on an expired session only
                  /\ outcome = "OkRaw" =>
                         /\ IsSome(cookie_value)
                         /\ StoreLoadRaw(Unwrap(cookie_value)) # StoreLoad(Unwrap(cookie_value))
                  /\ fresh => next_token < MaxSessions
                  /\ pc' = [pc EXCEPT ![r] = "chain"]
                  /\ calls' = [calls EXCEPT ![r] =
                         IF IsSome(cookie_value)
                         THEN <<Call("load_session", Unwrap(cookie_value), NoArg, outcome)>>
                         ELSE <<>>]
                  /\ next_token' = IF fresh THEN next_token + 1 ELSE next_token
                  /\ depot' = [depot EXCEPT ![r] = Some(session)]
                  /\ seen' = [seen EXCEPT ![r] = Some(session)]
    /\ UNCHANGED <<cfgVars, redirectVars, codecVars, store, now, jar, is_ceased, res_cookies,
                   taken>>

---------------------------------------------------------------------------
(* ctrl.call_next: the handlers after this one, and what they do to the    *)
(* session in the depot and to the flow control                            *)

\* the session operations of one handler chain, in order
HandlerChains ==
    { <<>>,
      <<"insert">>, <<"remove">>, <<"destroy">>,
      <<"insert", "destroy">>,
      <<"set_session">>, <<"set_session", "insert">>,
      <<"take_session">>,
      <<"cease">>, <<"insert", "cease">>, <<"destroy", "cease">> }

\* one operation on [depot, ceased, tokens]
ApplyOp(st, op) ==
    IF op = "insert"            \* depot.session_mut(), Session::insert
    THEN [st EXCEPT !.depot = IF IsSome(@)
                               THEN Some(SessionInsert(Unwrap(@), "username", "salvo"))
                               ELSE None]
    ELSE IF op = "remove"       \* depot.session_mut(), Session::remove
    THEN [st EXCEPT !.depot = IF IsSome(@)
                               THEN Some(SessionRemove(Unwrap(@), "username"))
                               ELSE None]
    ELSE IF op = "destroy"      \* depot.session_mut(), Session::destroy
    THEN [st EXCEPT !.depot = IF IsSome(@) THEN Some(SessionDestroy(Unwrap(@)))
                               ELSE None]
    ELSE IF op = "set_session"  \* depot.set_session(Session::new())
    THEN [st EXCEPT !.depot = Some(SessionNew(st.tokens + 1)), !.tokens = @ + 1]
    ELSE IF op = "take_session" \* depot.take_session()
    THEN [st EXCEPT !.depot = None]
    ELSE                        \* ctrl.cease()
         [st EXCEPT !.ceased = TRUE]

RECURSIVE ApplyChain(_, _)
ApplyChain(st, chain) ==
    IF chain = <<>> THEN st
    ELSE ApplyChain(ApplyOp(st, Head(chain)), Tail(chain))

\* ctrl.call_next(req, depot, res).await
CallNext(r, chain) ==
    /\ pc[r] = "chain"
    /\ LET st == ApplyChain([depot |-> depot[r], ceased |-> FALSE, tokens |-> next_token],
                            chain)
       IN /\ st.tokens <= MaxSessions
          /\ depot' = [depot EXCEPT ![r] = st.depot]
          /\ is_ceased' = [is_ceased EXCEPT ![r] = st.ceased]
          /\ next_token' = st.tokens
    /\ pc' = [pc EXCEPT ![r] = "returned"]
    /\ UNCHANGED <<cfgVars, redirectVars, codecVars, store, now, jar, req_cookie, res_cookies,
                   calls, verdict, seen, presented, taken>>

---------------------------------------------------------------------------
(* SessionHandler::handle, after call_next *)

\* a decision that looks at the changes before the destroyed flag
end_branch_changed_first(session) ==
    IF save_unchanged \/ session.data_changed THEN "store"
    ELSE IF session.destroy THEN "destroy"
    ELSE "skip"

\* a decision that stores whatever save_unchanged says
end_branch_ignores_flag(session) ==
    IF session.destroy THEN "destroy" ELSE "store"

\* session.is_destroyed(), else self.save_unchanged || session.data_changed()
end_branch(session) ==
    IF session.destroy THEN "destroy"
    ELSE IF save_unchanged \/ session.data_changed THEN "store"
    ELSE "skip"

\* an end that goes on although the chain was ceased
returns_early_never(ceased) == FALSE

\* if ctrl.is_ceased() { return; }
returns_early(ceased) == ceased

\* an end that clears the cookie only when destroy_session succeeded
end_response_remove_on_success(session, outcome, https) ==
    IF end_branch(session) = "destroy"
    THEN IF outcome = "Ok" THEN <<RemoveCookie(COOKIE_NAME)>> ELSE <<>>
    ELSE IF end_branch(session) = "store" /\ outcome = "OkSome"
    THEN <<build_cookie(https, StoreToken(session))>>
    ELSE <<>>

\* an end that clears the cookie when store_session failed
end_response_remove_on_store_error(session, outcome, https) ==
    IF end_branch(session) = "destroy" THEN <<RemoveCookie(COOKIE_NAME)>>
    ELSE IF end_branch(session) = "store" /\ outcome = "OkSome"
    THEN <<build_cookie(https, StoreToken(session))>>
    ELSE IF end_branch(session) = "store" /\ outcome = "Err"
    THEN <<RemoveCookie(COOKIE_NAME)>>
    ELSE <<>>

\* an end that also issues a cookie for a destroyed session whose data changed
end_response_add_and_remove(session, outcome, https) ==
    IF end_branch(session) = "destroy"
    THEN IF session.data_changed
         THEN <<build_cookie(https, StoreToken(session)), RemoveCookie(COOKIE_NAME)>>
         ELSE <<RemoveCookie(COOKIE_NAME)>>
    ELSE IF end_branch(session) = "store" /\ outcome = "OkSome"
    THEN <<build_cookie(https, StoreToken(session))>>
    ELSE <<>>

\* what end does to the response's cookies: remove_cookie after
\* destroy_session, add_cookie after store_session answered Ok(Some(value))
end_response(session, outcome, https) ==
    IF end_branch(session) = "destroy" THEN <<RemoveCookie(COOKIE_NAME)>>
    ELSE IF end_branch(session) = "store" /\ outcome = "OkSome"
    THEN <<build_cookie(https, StoreToken(session))>>
    ELSE <<>>

\* `outcome` is the store's answer, `https` whether the request's scheme is
\* https; both are read only on the branches that use them
End(r, outcome, https) ==
    /\ pc[r] = "returned"
    /\ IF returns_early(is_ceased[r])
       THEN /\ outcome = "Ok" /\ ~https
            /\ pc' = [pc EXCEPT ![r] = "done"]
            /\ UNCHANGED <<depot, store, jar, res_cookies, calls, taken>>
       ELSE IF ~IsSome(depot[r])
       THEN \* expect("session should exist in depot")
            /\ outcome = "Ok" /\ ~https
            /\ pc' = [pc EXCEPT ![r] = "panicked"]
            /\ UNCHANGED <<depot, store, jar, res_cookies, calls, taken>>
       ELSE LET session == Unwrap(depot[r]) IN
            /\ depot' = [depot EXCEPT ![r] = None]
            /\ taken' = [taken EXCEPT ![r] = Some(session)]
            /\ pc' = [pc EXCEPT ![r] = "done"]
            /\ res_cookies' = [res_cookies EXCEPT ![r] =
                   @ \o end_response(session, outcome, https)]
            /\ IF end_branch(session) = "destroy"
               THEN /\ outcome \in DestroyOutcomes /\ ~https
                    /\ store' = IF outcome = "Ok" THEN StoreRemove(session) ELSE store
                    /\ calls' = [calls EXCEPT ![r] =
                           Append(@, Call("destroy_session", <<>>, session, outcome))]
                    /\ jar' = JarMark(session.id,
                           IF outcome = "Ok" THEN "destroyed" ELSE "destroy_failed")
               ELSE IF end_branch(session) = "store"
               THEN /\ outcome \in StoreOutcomes
                    /\ (outcome = "OkSome" \/ ~https)
                    /\ store' = IF outcome = "Err" THEN store ELSE StorePut(session)
                    /\ calls' = [calls EXCEPT ![r] =
                           Append(@, Call("store_session", <<>>, session, outcome))]
                    /\ jar' = IF outcome = "OkSome"
                              THEN JarIssue(JarMark(session.id, "stale"),
                                            build_cookie(https, StoreToken(session)).value,
                                            session)
                              ELSE IF outcome = "Err" THEN jar
                              ELSE JarMark(session.id, "stale")
               ELSE /\ outcome = "Ok" /\ ~https
                    /\ UNCHANGED <<store, jar, calls>>
    /\ UNCHANGED <<cfgVars, redirectVars, codecVars, now, next_token, req_cookie, is_ceased,
                   verdict, seen, presented>>

---------------------------------------------------------------------------
(* The environment: the connection is closed, time passes *)

\* the request and its response are gone; the slot serves the next request
Retire(r) ==
    /\ pc[r] \in {"done", "panicked"}
    /\ \A q \in Reqs : q > r => pc[q] = "idle"
    /\ pc' = [pc EXCEPT ![r] = "idle"]
    /\ req_cookie' = [req_cookie EXCEPT ![r] = None]
    /\ depot' = [depot EXCEPT ![r] = None]
    /\ is_ceased' = [is_ceased EXCEPT ![r] = FALSE]
    /\ res_cookies' = [res_cookies EXCEPT ![r] = <<>>]
    /\ calls' = [calls EXCEPT ![r] = <<>>]
    /\ verdict' = [verdict EXCEPT ![r] = Pending]
    /\ seen' = [seen EXCEPT ![r] = None]
    /\ presented' = [presented EXCEPT ![r] = None]
    /\ taken' = [taken EXCEPT ![r] = None]
    /\ UNCHANGED <<cfgVars, redirectVars, codecVars, sharedVars>>

\* the clock is read only when a TTL is configured
Tick ==
    /\ IsSome(session_ttl)
    /\ now < MaxTime
    /\ now' = now + 1
    /\ UNCHANGED <<cfgVars, redirectVars, codecVars, store, next_token, jar, reqVars>>

\* SessionHandler::builder(store, secret) and the builder's settings
Init ==
    /\ key = 1
    /\ fallback_keys = <<OldKey>>
    /\ session_ttl \in {None, Some(1)}
    /\ save_unchanged \in BOOLEAN
    /\ cx_origin = "none"
    /\ cx_signer = 0
    /\ cx_raw = <<>>
    /\ cx_value = <<>>
    /\ cx_result = Pending
    /\ InitLife
    /\ InitRedirectIdle

\* one request at a time
Alone(r) == \A q \in Reqs : q # r => pc[q] = "idle"

\* a request arrives when the one before it has been answered
BeginAlone(r, c, o) == Alone(r) /\ Begin(r, c, o)

Next ==
    \/ \E r \in Reqs, c \in ClientCookies, o \in LoadOutcomes : BeginAlone(r, c, o)
    \/ \E r \in Reqs, chain \in HandlerChains : CallNext(r, chain)
    \/ \E r \in Reqs, o \in StoreOutcomes \cup DestroyOutcomes, h \in BOOLEAN : End(r, o, h)
    \/ \E r \in Reqs : Retire(r)
    \/ Tick

Spec == Init /\ [][Next]_vars

---------------------------------------------------------------------------
(* Requests in flight at the same time: handle is async and takes &self, so *)
(* the steps of several requests interleave at every await                 *)

\* the session an earlier request left in the store
EarlierSession ==
    LET session == SessionInsert(SessionNew(1), "username", "salvo")
    IN IF IsSome(session_ttl) THEN expire_in(session, Unwrap(session_ttl), 0)
       ELSE session

\* an earlier request has logged in: the store holds its session and the
\* client the cookie issued for it
InitConc ==
    /\ key = 1
    /\ fallback_keys = <<OldKey>>
    /\ session_ttl \in {None, Some(1)}
    /\ save_unchanged \in BOOLEAN
    /\ cx_origin = "none"
    /\ cx_signer = 0
    /\ cx_raw = <<>>
    /\ cx_value = <<>>
    /\ cx_result = Pending
    /\ InitRedirectIdle
    /\ store = {[id |-> EarlierSession.id, data |-> EarlierSession.data,
                 expiry |-> EarlierSession.expiry]}
    /\ now = 0
    /\ next_token = 1
    /\ jar = {JarEntry(sign_cookie(key, Token(1)), EarlierSession)}
    /\ pc = [r \in Reqs |-> "idle"]
    /\ req_cookie = [r \in Reqs |-> None]
    /\ depot = [r \in Reqs |-> None]
    /\ is_ceased = [r \in Reqs |-> FALSE]
    /\ res_cookies = [r \in Reqs |-> <<>>]
    /\ calls = [r \in Reqs |-> <<>>]
    /\ verdict = [r \in Reqs |-> Pending]
    /\ seen = [r \in Reqs |-> None]
    /\ presented = [r \in Reqs |-> None]
    /\ taken = [r \in Reqs |-> None]

NextConc ==
    \/ \E r \in Reqs, c \in ClientCookies, o \in LoadOutcomes : Begin(r, c, o)
    \/ \E r \in Reqs, chain \in HandlerChains : CallNext(r, chain)
    \/ \E r \in Reqs, o \in StoreOutcomes \cup DestroyOutcomes, h \in BOOLEAN : End(r, o, h)

SpecConc == InitConc /\ [][NextConc]_vars

---------------------------------------------------------------------------
(* Codec harness: sign a raw value, optionally alter one byte, verify *)

\* the bytes a tampering client writes: base64 symbols, padding, an ASCII
\* byte outside the alphabet, and the byte that follows the one replaced
TamperBytes == {65, 66, PAD, 33}
TamperChoices(i) ==
    IF i <= Len(cx_value) THEN TamperBytes \cup {(cx_value[i] + 1) % 128}
    ELSE {}

\* cookie values a client can send that no handler produced
ArbitraryInputs ==
    { <<>>, <<65>>, Rep(65, BASE64_DIGEST_LEN - 1),
      Rep(65, BASE64_DIGEST_LEN),
      Rep(65, BASE64_DIGEST_LEN + 1),
      Rep(33, BASE64_DIGEST_LEN + 1),
      Rep(PAD, BASE64_DIGEST_LEN),
      \* a two-byte character (0xC3 0xA9) straddling byte offset 44
      Rep(65, BASE64_DIGEST_LEN - 1) \o <<195, 169>>,
      \* the same character wholly inside the raw portion
      Rep(65, BASE64_DIGEST_LEN) \o <<195, 169>>,
      \* a short value holding a two-byte character
      <<195, 169>> }

\* HandlerBuilder::new: the defaults of the settings the codec never reads
InitCodec ==
    /\ key \in KeyIds
    /\ fallback_keys \in FallbackLists
    /\ session_ttl = Some(1)
    /\ save_unchanged = TRUE
    /\ cx_origin = "none"
    /\ cx_signer = 0
    /\ cx_raw = <<>>
    /\ cx_value = <<>>
    /\ cx_result = Pending
    /\ InitLife
    /\ InitRedirectIdle

\* a handler whose primary key is k signs the raw value v
CodecSign(k, v) ==
    /\ cx_origin = "none"
    /\ cx_origin' = "signed"
    /\ cx_signer' = k
    /\ cx_raw' = v
    /\ cx_value' = sign_cookie(k, v)
    /\ UNCHANGED <<cfgVars, redirectVars, lifeVars, cx_result>>

\* the client changes exactly one byte of the signed value
CodecTamper(i, b) ==
    /\ cx_origin = "signed"
    /\ cx_result = Pending
    /\ i \in 1..Len(cx_value)
    /\ cx_value[i] # b
    /\ cx_origin' = "tampered"
    /\ cx_value' = [cx_value EXCEPT ![i] = b]
    /\ UNCHANGED <<cfgVars, redirectVars, lifeVars, cx_signer, cx_raw, cx_result>>

\* the handler under check issues a cookie for the raw value v
CodecIssue(v, secure) ==
    /\ cx_origin = "none"
    /\ cx_origin' = "issued"
    /\ cx_signer' = key
    /\ cx_raw' = v
    /\ cx_value' = build_cookie(secure, v).value
    /\ UNCHANGED <<cfgVars, redirectVars, lifeVars, cx_result>>

\* the client sends a value no handler produced
CodecInput(s) ==
    /\ cx_origin = "none"
    /\ cx_origin' = "arbitrary"
    /\ cx_value' = s
    /\ UNCHANGED <<cfgVars, redirectVars, lifeVars, cx_signer, cx_raw, cx_result>>

\* the handler under check verifies the value
CodecVerify ==
    /\ cx_origin # "none"
    /\ cx_result = Pending
    /\ cx_result' = verify_signature(key, fallback_keys, cx_value)
    /\ UNCHANGED <<cfgVars, redirectVars, lifeVars, cx_origin, cx_signer, cx_raw, cx_value>>

NextCodec ==
    \/ \E k \in KeyIds, v \in RawValues : CodecSign(k, v)
    \/ \E i \in 1..(BASE64_DIGEST_LEN + MaxRawLen) :
          \E b \in TamperChoices(i) : CodecTamper(i, b)
    \/ \E v \in RawValues, secure \in BOOLEAN : CodecIssue(v, secure)
    \/ \E s \in ArbitraryInputs : CodecInput(s)
    \/ CodecVerify

SpecCodec == InitCodec /\ [][NextCodec]_vars

---------------------------------------------------------------------------
(* Redirect harness: a Host header arrives, ForceHttps rewrites its host *)

\* "example.com", "localhost", "127.0.0.1" and the IPv6 literal "[::1]"
HostNames ==
    { <<101, 120, 97, 109, 112, 108, 101, 46, 99, 111, 109>>,
      <<108, 111, 99, 97, 108, 104, 111, 115, 116>>,
      <<49, 50, 55, 46, 48, 46, 48, 46, 49>>,
      <<91, 58, 58, 49, 93>> }

PortNumbers == {80, 443, 1234, 5678, 65535}
OptionalPorts == {None} \cup {Some(p) : p \in PortNumbers}

\* the Host header's value: host, or host ":" port
HostHeader(name, port) ==
    IF IsSome(port) THEN name \o <<Colon>> \o ToDecimal(Unwrap(port)) ELSE name

\* ForceHttps::new(), with or without https_port(port)
InitRedirect ==
    /\ key = 1
    /\ fallback_keys = <<>>
    /\ session_ttl = None
    /\ save_unchanged = TRUE
    /\ cx_origin = "none"
    /\ cx_signer = 0
    /\ cx_raw = <<>>
    /\ cx_value = <<>>
    /\ cx_result = Pending
    /\ InitLife
    /\ https_port \in OptionalPorts
    /\ rh_name = <<>>
    /\ rh_port = None
    /\ rh_result = None

\* req.header::<String>(header::HOST)
RedirectReceive(name, port) ==
    /\ rh_name = <<>>
    /\ rh_name' = name
    /\ rh_port' = port
    /\ UNCHANGED <<cfgVars, codecVars, lifeVars, https_port, rh_result>>

\* let host = redirect_host(&host, self.https_port)
RedirectHost ==
    /\ rh_name # <<>>
    /\ rh_result = None
    /\ rh_result' = Some(redirect_host(HostHeader(rh_name, rh_port), https_port))
    /\ UNCHANGED <<cfgVars, codecVars, lifeVars, https_port, rh_name, rh_port>>

NextRedirect ==
    \/ \E name \in HostNames, port \in OptionalPorts : RedirectReceive(name, port)
    \/ RedirectHost

SpecRedirect == InitRedirect /\ [][NextRedirect]_vars

---------------------------------------------------------------------------
(* Claims about redirect_host, checked under SpecRedirect *)

\* C16 as claimed: with a port override the result is the header's host,
\* without the port the header had, followed by ":" and the override; with
\* no override the result is the header's value as it came.
C16_RedirectHost ==
    IsSome(rh_result) =>
        Unwrap(rh_result) =
            IF IsSome(https_port)
            THEN rh_name \o <<Colon>> \o ToDecimal(Unwrap(https_port))
            ELSE HostHeader(rh_name, rh_port)

\* the same for a host that holds no ':' (a registered name or an IPv4
\* address): there the claim holds
C16_RedirectPlainHost ==
    (IsSome(rh_result) /\ Colon \notin Range(rh_name)) =>
        Unwrap(rh_result) =
            IF IsSome(https_port)
            THEN rh_name \o <<Colon>> \o ToDecimal(Unwrap(https_port))
            ELSE HostHeader(rh_name, rh_port)

\* "example.com:5678" with the override 1234 gives "example.com:1234"
C16_PlainHostWitness ==
    /\ IsSome(rh_result)
    /\ rh_name = <<101, 120, 97, 109, 112, 108, 101, 46, 99, 111, 109>>
    /\ rh_port = Some(5678) /\ https_port = Some(1234)
    /\ Unwrap(rh_result) = rh_name \o <<Colon, 49, 50, 51, 52>>

---------------------------------------------------------------------------
(* Claims about the codec, checked under SpecCodec *)

Verified == cx_result # Pending

\* C1: a value signed under the handler's primary key verifies, whatever the
\* fallback keys are, and verification returns the raw value unchanged.
C1_RoundTrip ==
    (cx_origin = "signed" /\ cx_signer = key /\ Verified)
        => (cx_result.tag = "Ok" /\ cx_result.value = cx_raw)

C1_Witness ==
    /\ cx_origin = "signed" /\ cx_signer = key /\ Verified
    /\ Len(cx_raw) = MaxRawLen
    /\ Len(fallback_keys) = 2
    /\ cx_result.tag = "Ok"

\* C3: a value signed under the primary key and then changed in exactly one
\* byte, in the digest prefix or in the raw portion, fails verification.
C3_TamperDetected ==
    (cx_origin = "tampered" /\ cx_signer = key /\ Verified)
        => cx_result.tag = "Err"

\* the changed byte is the last symbol of the digest, the one with unused bits
C3_Witness ==
    /\ cx_origin = "tampered" /\ cx_signer = key /\ Verified
    /\ cx_value[BASE64_DIGEST_LEN - 1] # sign_cookie(cx_signer, cx_raw)[BASE64_DIGEST_LEN - 1]
    /\ B64Val(cx_value[BASE64_DIGEST_LEN - 1]) >= 0
    /\ cx_result.tag = "Err"

\* C4: a value signed under a key other than the primary key verifies exactly
\* when that key is among the fallback keys, and a cookie the handler issues
\* verifies under the primary key alone.
C4_KeyRotation ==
    /\ (cx_origin = "signed" /\ cx_signer # key /\ Verified)
           => /\ cx_result.tag \in {"Ok", "Err"}
              /\ cx_result.tag = "Ok" <=> cx_signer \in Range(fallback_keys)
              /\ cx_result.tag = "Ok" => cx_result.value = cx_raw
    /\ cx_origin = "issued"
           => LET alone == verify_signature(key, <<>>, cx_value)
              IN alone.tag = "Ok" /\ alone.value = cx_raw

\* the old key is the second fallback key
C4_Witness ==
    /\ cx_origin = "signed" /\ cx_signer # key /\ Verified
    /\ Len(fallback_keys) = 2
    /\ fallback_keys[1] = key /\ fallback_keys[2] = cx_signer
    /\ cx_result.tag = "Ok"

\* C5: a value shorter than the digest prefix is an error, found before the
\* split and before any base64 decoding; verification does not panic.
C5_ShortValueIsError ==
    (Len(cx_value) < BASE64_DIGEST_LEN /\ Verified)
        => (cx_result.tag = "Err" /\ cx_result.steps = {})

C5_Witness ==
    /\ Verified
    /\ Len(cx_value) = BASE64_DIGEST_LEN - 1
    /\ cx_result.tag = "Err"

\* C22 as claimed: whatever string verify_signature is given, it returns Ok
\* or Err; it does not panic.
C22_VerifyNeverPanics ==
    Verified => cx_result.tag \in {"Ok", "Err"}

\* what holds: verify_signature returns Ok or Err for every value that is
\* shorter than the digest prefix or has a character boundary at byte 44
\* (every ASCII value among them)
C22_VerifyTotalOnCharBoundary ==
    (Verified /\ (Len(cx_value) < BASE64_DIGEST_LEN
                     \/ is_char_boundary(cx_value, BASE64_DIGEST_LEN)))
        => cx_result.tag \in {"Ok", "Err"}

---------------------------------------------------------------------------
(* Claims about the request lifecycle, checked under Spec *)

Begun(r) ==
    pc[r] \in {"chain", "returned", "done"} \/ (pc[r] = "panicked" /\ IsSome(seen[r]))

\* the session a request without a cookie is given: new, empty, signed by
\* nobody yet, expiring a TTL after some moment up to now
IsNewEmptySession(session) ==
    \E n \in 1..next_token :
        \/ ~IsSome(session_ttl) /\ session = SessionNew(n)
        \/ /\ IsSome(session_ttl)
           /\ \E t \in 0..now : session = expire_in(SessionNew(n), Unwrap(session_ttl), t)

\* the three ways a cookie value fails verification
C2_TooShort(c) == Len(c) < BASE64_DIGEST_LEN
C2_BadDigest(c) ==
    /\ ~C2_TooShort(c)
    /\ \E i \in 1..BASE64_DIGEST_LEN : c[i] > 127 \/ (B64Val(c[i]) < 0 /\ c[i] # PAD)
C2_NoKeyMatches(c) ==
    /\ ~C2_TooShort(c)
    /\ \A k \in {key} \cup Range(fallback_keys) :
           SubSeq(c, 1, BASE64_DIGEST_LEN)
               # base64_encode(Hmac(k, SubSeq(c, BASE64_DIGEST_LEN + 1, Len(c))))
C2_Fails(c) == C2_TooShort(c) \/ C2_BadDigest(c) \/ C2_NoKeyMatches(c)

LoadFailed(r) ==
    \E i \in DOMAIN calls[r] :
        calls[r][i].op = "load_session" /\ calls[r][i].result = "Err"

\* C6: a request that presents a cookie a response issued, while the session
\* persisted with that response is unexpired and no store call has touched
\* it since, and whose load does not fail, exposes that session's data
\* (username = "salvo" when that is what the handler wrote).
C6_PersistedDataIsSeen ==
    \A r \in Reqs :
        (pc[r] # "idle" /\ IsSome(presented[r])
            /\ Unwrap(presented[r]).entry.state = "live"
            /\ ~is_expired(Unwrap(presented[r]).entry.expiry, Unwrap(presented[r]).at)
            /\ ~LoadFailed(r))
        => /\ Begun(r)
           /\ Unwrap(seen[r]).id = Unwrap(presented[r]).entry.id
           /\ Unwrap(seen[r]).data = Unwrap(presented[r]).entry.data

C6_Witness ==
    \E r \in Reqs :
        /\ pc[r] = "chain"
        /\ IsSome(presented[r])
        /\ Unwrap(presented[r]).entry.state = "live"
        /\ Unwrap(presented[r]).entry.data = {<<"username", "salvo">>}
        /\ Get(Unwrap(seen[r]).data, "username") = {"salvo"}

Destroying(r) == pc[r] = "done" /\ IsSome(taken[r]) /\ Unwrap(taken[r]).destroy

SessionAtEnd(r) == IF IsSome(taken[r]) THEN taken[r] ELSE depot[r]

EndCalls(r) ==
    {i \in DOMAIN calls[r] : calls[r][i].op \in {"store_session", "destroy_session"}}

\* C8: with save_unchanged off, a request whose handlers leave the session as
\* begin exposed it (created or loaded, its expiry refreshed or not) ends
\* with no store call and no cookie written.
C8_UnchangedIsNotSaved ==
    \A r \in Reqs :
        (pc[r] = "done" /\ ~save_unchanged /\ SessionAtEnd(r) = seen[r])
        => (EndCalls(r) = {} /\ res_cookies[r] = <<>>)

\* a loaded session whose expiry begin refreshed
C8_Witness ==
    \E r \in Reqs :
        /\ pc[r] = "done" /\ ~save_unchanged /\ IsSome(session_ttl)
        /\ ~is_ceased[r]
        /\ taken[r] = seen[r]
        /\ ~IsSome(Unwrap(seen[r]).cookie_value)
        /\ Unwrap(seen[r]).data # {}
        /\ res_cookies[r] = <<>>

\* C9 as claimed: with save_unchanged on, every request that is not ceased
\* and whose session is not destroyed ends with the session cookie added.
C9_CookieAlwaysSet ==
    \A r \in Reqs :
        (pc[r] = "done" /\ save_unchanged /\ ~is_ceased[r]
            /\ IsSome(taken[r]) /\ ~Unwrap(taken[r]).destroy)
        => \E i \in DOMAIN res_cookies[r] :
               res_cookies[r][i].op = "add" /\ res_cookies[r][i].name = COOKIE_NAME

\* C10: a request without a cookie, with save_unchanged on, not ceased and
\* not destroyed, makes one store_session call, and when the store answers
\* with a token the response holds exactly one cookie, named as configured,
\* whose value is base64(HMAC(primary key, token)) followed by the token.
C10_FreshCookieIsSigned ==
    \A r \in Reqs :
        (pc[r] = "done" /\ req_cookie[r] = None /\ save_unchanged /\ ~is_ceased[r]
            /\ IsSome(taken[r]) /\ ~Unwrap(taken[r]).destroy)
        => /\ Cardinality(EndCalls(r)) = 1
           /\ \A i \in EndCalls(r) :
                  /\ calls[r][i].op = "store_session"
                  /\ calls[r][i].session = Unwrap(taken[r])
                  /\ calls[r][i].result = "OkSome"
                     => /\ Len(res_cookies[r]) = 1
                        /\ res_cookies[r][1].op = "add"
                        /\ res_cookies[r][1].name = COOKIE_NAME
                        /\ res_cookies[r][1].http_only
                        /\ LET token == StoreToken(calls[r][i].session)
                           IN res_cookies[r][1].value
                                  = base64_encode(Hmac(key, token)) \o token

C10_Witness ==
    \E r \in Reqs :
        /\ pc[r] = "done" /\ req_cookie[r] = None /\ save_unchanged
        /\ Len(res_cookies[r]) = 1
        /\ res_cookies[r][1].secure
        /\ res_cookies[r][1].value = sign_cookie(key, Token(1))

\* C11: a request whose chain is ceased when call_next returns ends with no
\* store_session call, no destroy_session call and nothing done to the
\* response's cookies, whatever the session's flags and save_unchanged are.
C11_CeasedSkipsPersistence ==
    \A r \in Reqs :
        (pc[r] \in {"done", "panicked"} /\ is_ceased[r])
        => /\ pc[r] = "done"
           /\ EndCalls(r) = {}
           /\ res_cookies[r] = <<>>
           /\ taken[r] = None

\* ceased with a session that is marked destroyed, save_unchanged on
C11_Witness ==
    \E r \in Reqs :
        /\ pc[r] = "done" /\ is_ceased[r] /\ save_unchanged
        /\ IsSome(depot[r]) /\ Unwrap(depot[r]).destroy
        /\ Stored(Unwrap(depot[r]).id) # {}
        /\ EndCalls(r) = {}

\* C12: a request that ends with a session marked destroyed calls
\* destroy_session on it, once, and never store_session; it issues no signed
\* cookie, even when the data changed too or save_unchanged is on; and it
\* removes the session cookie whether destroy_session succeeded or failed.
C12_DestroyedTakesPrecedence ==
    \A r \in Reqs :
        (pc[r] = "done" /\ IsSome(taken[r]) /\ Unwrap(taken[r]).destroy)
        => /\ Cardinality(EndCalls(r)) = 1
           /\ \A i \in EndCalls(r) :
                  /\ calls[r][i].op = "destroy_session"
                  /\ calls[r][i].session = Unwrap(taken[r])
           /\ res_cookies[r] = <<RemoveCookie(COOKIE_NAME)>>

\* the data changed in the same request, save_unchanged is on, and
\* destroy_session failed
C12_Witness ==
    \E r \in Reqs :
        /\ pc[r] = "done" /\ save_unchanged
        /\ IsSome(taken[r])
        /\ Unwrap(taken[r]).destroy /\ Unwrap(taken[r]).data_changed
        /\ \E i \in EndCalls(r) :
               calls[r][i].op = "destroy_session" /\ calls[r][i].result = "Err"
        /\ res_cookies[r] = <<RemoveCookie(COOKIE_NAME)>>

StoreFailed(r) ==
    \E i \in DOMAIN calls[r] :
        calls[r][i].op = "store_session" /\ calls[r][i].result = "Err"

\* C13: a request whose store_session call fails returns normally, has made
\* that one call only, and has neither added nor removed a cookie.
C13_StoreFailureIsNotFatal ==
    \A r \in Reqs :
        StoreFailed(r)
        => /\ pc[r] = "done"
           /\ Cardinality(EndCalls(r)) = 1
           /\ res_cookies[r] = <<>>

\* the client presented a cookie it was issued, and the handler changed the
\* session
C13_Witness ==
    \E r \in Reqs :
        /\ StoreFailed(r) /\ pc[r] = "done"
        /\ IsSome(presented[r]) /\ Unwrap(presented[r]).entry.state = "live"
        /\ Unwrap(taken[r]).data_changed
        /\ res_cookies[r] = <<>>

\* request r begins in this step
BeginStep(r) == pc[r] = "idle" /\ pc'[r] # "idle"

\* the store holds nothing usable under the id the raw value stands for:
\* nothing at all, or a session that has expired
NothingToLoad(raw) ==
    \A e \in Stored(IdFromCookieValue(raw)) : is_expired(e.expiry, now)

\* C14: when a request begins with a cookie that verifies, and load_session
\* fails, finds nothing, or returns an expired session, the handlers are
\* given a session Session::new has just made: empty, unchanged, under an
\* id that is new and is not the one the cookie's raw value stands for; and
\* the request goes on to the handlers.
C14_LoadFailureGivesFreshSession ==
    [][\A r \in Reqs :
          (BeginStep(r) /\ verdict'[r].tag = "Ok"
              /\ (calls'[r][1].result = "Err" \/ NothingToLoad(verdict'[r].value)))
          => /\ pc'[r] = "chain"
             /\ next_token' = next_token + 1
             /\ seen'[r] = Some(IF IsSome(session_ttl)
                                THEN expire_in(SessionNew(next_token'),
                                               Unwrap(session_ttl), now)
                                ELSE SessionNew(next_token'))
             /\ Unwrap(seen'[r]).id # IdFromCookieValue(verdict'[r].value)
             /\ Unwrap(seen'[r]).cookie_value # Some(verdict'[r].value)
             /\ depot'[r] = seen'[r]]_vars

\* the store handed back a session that had data and has expired
C14_Witness ==
    \E r \in Reqs :
        /\ pc[r] = "chain" /\ verdict[r].tag = "Ok"
        /\ calls[r] # <<>> /\ calls[r][1].result = "OkRaw"
        /\ \E e \in Stored(IdFromCookieValue(verdict[r].value)) :
               e.data # {} /\ is_expired(e.expiry, now)
        /\ Unwrap(seen[r]).data = {}
        /\ Unwrap(seen[r]).id # IdFromCookieValue(verdict[r].value)

\* C15 as claimed: with a TTL configured, every session handed to
\* store_session carries an expiry, and the cookie issued for it expires no
\* earlier than the session does (the cookie's expiry is taken from the clock
\* at the end of the request, the session's at its beginning).
C15_StoredSessionCarriesCookieExpiry ==
    \A r \in Reqs :
        IsSome(session_ttl) =>
            \A i \in EndCalls(r) :
                calls[r][i].op = "store_session"
                => /\ IsSome(calls[r][i].session.expiry)
                   /\ \A k \in DOMAIN res_cookies[r] :
                          res_cookies[r][k].op = "add"
                          => /\ IsSome(res_cookies[r][k].expires)
                             /\ Unwrap(res_cookies[r][k].expires)
                                    >= Unwrap(calls[r][i].session.expiry)

LoadCalls(r) == {i \in DOMAIN calls[r] : calls[r][i].op = "load_session"}

\* the digest prefix of cookie value c decodes to the HMAC of `raw` under k
DigestMatches(c, raw, k) ==
    LET dec == base64_decode(SubSeq(c, 1, BASE64_DIGEST_LEN))
    IN dec.ok /\ dec.bytes = Hmac(k, raw)

\* C17: a request calls load_session at most once, and only with the raw
\* portion of its own cookie, whose digest is the HMAC of that raw portion
\* under the primary key or a fallback key; a request without a cookie, or
\* whose cookie fails verification, does not call load_session.
C17_OnlyVerifiedValuesAreLoaded ==
    \A r \in Reqs :
        /\ Cardinality(LoadCalls(r)) <= 1
        /\ \A i \in LoadCalls(r) :
               /\ IsSome(req_cookie[r])
               /\ LET c == Unwrap(req_cookie[r])
                      raw == calls[r][i].raw
                  IN /\ Len(c) >= BASE64_DIGEST_LEN
                     /\ raw = SubSeq(c, BASE64_DIGEST_LEN + 1, Len(c))
                     /\ \E k \in {key} \cup Range(fallback_keys) : DigestMatches(c, raw, k)
        /\ (pc[r] # "idle" /\ (~IsSome(req_cookie[r]) \/ C2_Fails(Unwrap(req_cookie[r]))))
               => LoadCalls(r) = {}

\* the cookie is signed under the fallback key, and the store is asked
C17_Witness ==
    \E r \in Reqs :
        /\ pc[r] = "chain"
        /\ req_cookie[r] = Some(sign_cookie(OldKey, Token(1)))
        /\ OldKey # key
        /\ LoadCalls(r) = {1}
        /\ calls[r][1].raw = Token(1)
        /\ calls[r][1].result = "Ok"
        /\ Unwrap(seen[r]).data # {}

\* C18 as claimed: once handle has returned, on whichever path, the depot of
\* the request holds no session.
C18_SessionConsumedAtEnd ==
    \A r \in Reqs : pc[r] = "done" => depot[r] = None

\* what holds: the depot is empty once handle has returned from a chain that
\* was not ceased, whether the session was stored, destroyed or skipped and
\* whatever the store answered
C18_SessionConsumedUnlessCeased ==
    \A r \in Reqs : (pc[r] = "done" /\ ~is_ceased[r]) => depot[r] = None

Added(r) == {k \in DOMAIN res_cookies[r] : res_cookies[r][k].op = "add"}
Removed(r) == {k \in DOMAIN res_cookies[r] : res_cookies[r][k].op = "remove"}

\* C19: a request does at most one thing to the response's cookies, adding
\* one signed session cookie (after a store_session call that answered with
\* a value) or removing the session cookie (after a destroy_session call),
\* never both; and it makes at most one store_session or destroy_session
\* call in all.
C19_OneOutcomePerRequest ==
    \A r \in Reqs :
        /\ Cardinality(EndCalls(r)) <= 1
        /\ Len(res_cookies[r]) <= 1
        /\ ~(Added(r) # {} /\ Removed(r) # {})
        /\ \A k \in Added(r) :
               /\ res_cookies[r][k].name = COOKIE_NAME
               /\ verify_signature(key, <<>>, res_cookies[r][k].value).tag = "Ok"
               /\ \E i \in EndCalls(r) :
                      calls[r][i].op = "store_session" /\ calls[r][i].result = "OkSome"
        /\ \A k \in Removed(r) :
               /\ res_cookies[r][k] = RemoveCookie(COOKIE_NAME)
               /\ \E i \in EndCalls(r) : calls[r][i].op = "destroy_session"

\* a session loaded from a cookie, changed, stored again and answered with
\* one new cookie
C19_Witness ==
    \E r \in Reqs :
        /\ pc[r] = "done"
        /\ IsSome(presented[r])
        /\ IsSome(taken[r]) /\ Unwrap(taken[r]).data_changed
        /\ ~IsSome(Unwrap(taken[r]).cookie_value)
        /\ Cardinality(Added(r)) = 1 /\ Removed(r) = {}
        /\ Cardinality(EndCalls(r)) = 1

---------------------------------------------------------------------------
(* Claims about requests in flight at the same time, checked under SpecConc *)

\* the state InitConc starts from is one a single earlier request leaves
\* behind (reached under Spec)
ConcStartReached ==
    /\ \A r \in Reqs : pc[r] = "idle"
    /\ now = 0 /\ next_token = 1
    /\ store = {[id |-> EarlierSession.id, data |-> EarlierSession.data,
                 expiry |-> EarlierSession.expiry]}
    /\ jar = {JarEntry(sign_cookie(key, Token(1)), EarlierSession)}

\* everything the handler keeps for request r
OwnState(r) ==
    <<pc[r], req_cookie[r], depot[r], is_ceased[r], res_cookies[r], calls[r],
      verdict[r], seen[r], taken[r]>>

EndStep(r) == pc[r] = "returned" /\ pc'[r] # "returned"

\* the session of a request, from its own cookie, the store's contents at
\* the load and the store's answer alone
SessionFromStore(c, answer) ==
    LET raw == SubSeq(c, BASE64_DIGEST_LEN + 1, Len(c))
        held == {e \in Stored(IdFromCookieValue(raw)) : ~is_expired(e.expiry, now)}
    IN IF answer = "Err" \/ held = {} THEN None
       ELSE LET e == CHOOSE x \in held : TRUE
            IN Some([id |-> e.id, cookie_value |-> None, data |-> e.data,
                     expiry |-> e.expiry, data_changed |-> FALSE, destroy |-> FALSE])

\* C20: in every step of every interleaving, (1) the handler's settings stay
\* as built and at most one request's own state changes; (2) the session a
\* request's handlers are given is determined by its own cookie and the
\* store's contents and answer at its load: the stored session as persisted,
\* or a new empty one; (3) what end does is determined by the request's own
\* session and flow control: nothing when ceased, destroy_session when that
\* session is marked destroyed, store_session when it is changed or
\* save_unchanged is on, otherwise nothing, always on that very session.
C20_RequestsAreIsolated ==
    [][/\ cfgVars' = cfgVars
       /\ \A r \in Reqs, q \in Reqs :
              (r # q /\ OwnState(r)' # OwnState(r)) => OwnState(q)' = OwnState(q)
       /\ \A r \in Reqs :
              (BeginStep(r) /\ pc'[r] = "chain")
              => LET loaded == IF verdict'[r].tag = "Ok"
                               THEN SessionFromStore(Unwrap(req_cookie'[r]),
                                                     calls'[r][1].result)
                               ELSE None
                     session == IF IsSome(loaded) THEN Unwrap(loaded)
                                ELSE SessionNew(next_token')
                 IN /\ seen'[r] = Some(IF IsSome(session_ttl)
                                       THEN expire_in(session, Unwrap(session_ttl), now)
                                       ELSE session)
                    /\ depot'[r] = seen'[r]
       /\ \A r \in Reqs :
              (EndStep(r) /\ pc'[r] = "done")
              => LET n == Len(calls[r])
                 IN IF is_ceased[r]
                    THEN calls'[r] = calls[r] /\ res_cookies'[r] = res_cookies[r]
                    ELSE /\ taken'[r] = depot[r]
                         /\ LET session == Unwrap(depot[r])
                            IN IF session.destroy
                               THEN /\ Len(calls'[r]) = n + 1
                                    /\ calls'[r][n + 1].op = "destroy_session"
                                    /\ calls'[r][n + 1].session = session
                               ELSE IF save_unchanged \/ session.data_changed
                               THEN /\ Len(calls'[r]) = n + 1
                                    /\ calls'[r][n + 1].op = "store_session"
                                    /\ calls'[r][n + 1].session = session
                               ELSE calls'[r] = calls[r]]_vars

\* two requests in flight loaded the same session; one has changed it, marked
\* it destroyed and had it destroyed, the other still holds the session it
\* was given
C20_Witness ==
    \E r \in Reqs, q \in Reqs :
        /\ r # q
        /\ IsSome(req_cookie[r]) /\ req_cookie[r] = req_cookie[q]
        /\ pc[r] = "done" /\ pc[q] = "returned"
        /\ IsSome(taken[r]) /\ Unwrap(taken[r]).destroy
        /\ Unwrap(taken[r]).id = Unwrap(seen[q]).id
        /\ Stored(Unwrap(seen[q]).id) = {}
        /\ depot[q] = seen[q]
        /\ Unwrap(seen[q]).data # {}

\* the persisted form of a session
Persisted(session) ==
    [id |-> session.id, data |-> session.data, expiry |-> session.expiry]

\* request r has had its session stored
HasStored(r) ==
    /\ pc[r] = "done" /\ IsSome(taken[r])
    /\ \E i \in EndCalls(r) :
           calls[r][i].op = "store_session" /\ calls[r][i].result # "Err"

\* C21: every store_session call that succeeds leaves the store holding,
\* under the session's id, exactly the session it was passed, whatever
\* another request stored there before, and touches no other session; a
\* call that fails leaves the store as it was and is not repeated. So once
\* two requests that presented the same cookie have both stored, the store
\* holds the session of one of them whole, the one whose call came last.
C21_LastStoreWins ==
    /\ [][\A r \in Reqs :
              (EndStep(r) /\ Len(calls'[r]) = Len(calls[r]) + 1
                  /\ calls'[r][Len(calls'[r])].op = "store_session")
              => LET call == calls'[r][Len(calls'[r])]
                 IN IF call.result = "Err" THEN store' = store
                    ELSE /\ {e \in store' : e.id = call.session.id}
                               = {Persisted(call.session)}
                         /\ {e \in store' : e.id # call.session.id}
                               = {e \in store : e.id # call.session.id}]_vars
    /\ [](\A r \in Reqs, q \in Reqs :
              (r # q /\ HasStored(r) /\ HasStored(q)
                  /\ Unwrap(taken[r]).id = Unwrap(taken[q]).id)
              => Stored(Unwrap(taken[r]).id) \in
                     {{Persisted(Unwrap(taken[r]))}, {Persisted(Unwrap(taken[q]))}})

\* both requests presented the same cookie and stored; one had removed the
\* user name, the store holds the other's session and the removal is lost
C21_Witness ==
    \E r \in Reqs, q \in Reqs :
        /\ r # q
        /\ IsSome(req_cookie[r]) /\ req_cookie[r] = req_cookie[q]
        /\ HasStored(r) /\ HasStored(q)
        /\ Unwrap(taken[r]).id = Unwrap(taken[q]).id
        /\ Unwrap(taken[r]).data = {} /\ Unwrap(taken[r]).data_changed
        /\ Unwrap(taken[q]).data # {}
        /\ Stored(Unwrap(taken[q]).id) = {Persisted(Unwrap(taken[q]))}

=============================================================================
